---- MODULE Spec2Model ----
(***************************************************************************)
(* Model of app/src/models/repository.ts: the Repository value object, its *)
(* derived fields (name, path, hash, isTutorialRepository) and the free   *)
(* functions nameOf, getGitHubHtmlUrl, getNonForkGitHubRepository and      *)
(* isRepositoryWithGitHubRepository.                                       *)
(*                                                                         *)
(* Conventions.  A JavaScript string is a sequence of one-character        *)
(* strings, so that concatenation, slicing and the basename scan are       *)
(* computed character by character.  A nullable or optional value is a     *)
(* sequence of length at most one: << >> is null / undefined / omitted,    *)
(* <<v>> is the value v.                                                   *)
(***************************************************************************)
EXTENDS Integers, Sequences, FiniteSets, TLC

VARIABLES platform, repo, other, result, otherHash

vars == <<platform, repo, other, result, otherHash>>

(***************************************************************************)
(* Bounds of the model.                                                    *)
(***************************************************************************)
\* The largest repository id handed to the constructor.
MaxId == 10

None == << >>

Some(v) == <<v>>

(***************************************************************************)
(* JavaScript string conversions used by the template literal of `hash`.   *)
(***************************************************************************)
DigitChar(d) == <<"0", "1", "2", "3", "4", "5", "6", "7", "8", "9">>[d + 1]

RECURSIVE NatToString(_)
NatToString(n) ==
  IF n < 10 THEN <<DigitChar(n)>>
  ELSE NatToString(n \div 10) \o <<DigitChar(n % 10)>>

\* `${this.id}` for an integer id
NumberToString(n) ==
  IF n < 0 THEN <<"-">> \o NatToString(0 - n) ELSE NatToString(n)

\* `${b}` for a boolean
BooleanToString(b) ==
  IF b THEN <<"t", "r", "u", "e">> ELSE <<"f", "a", "l", "s", "e">>

\* `${null}`
NullToString == <<"n", "u", "l", "l">>

(***************************************************************************)
(* Path.basename of Node's path module, for the two platforms the          *)
(* application ships on.                                                   *)
(***************************************************************************)
Platforms == {"posix", "win32"}

LowerCase ==
  {"a", "b", "c", "d", "e", "f", "g", "h", "i", "j", "k", "l", "m",
   "n", "o", "p", "q", "r", "s", "t", "u", "v", "w", "x", "y", "z"}

UpperCase ==
  {"A", "B", "C", "D", "E", "F", "G", "H", "I", "J", "K", "L", "M",
   "N", "O", "P", "Q", "R", "S", "T", "U", "V", "W", "X", "Y", "Z"}

IsWindowsDeviceRoot(c) == c \in LowerCase \cup UpperCase

IsPathSeparator(plat, c) ==
  IF plat = "win32" THEN c \in {"/", "\\"} ELSE c = "/"

\* win32 only: a drive letter prefix "X:" is skipped before the scan
BasenameStart(plat, path) ==
  IF /\ plat = "win32"
     /\ Len(path) >= 2
     /\ IsWindowsDeviceRoot(path[1])
     /\ path[2] = ":"
  THEN 2 ELSE 0

\* Path.basename(path): the scan from the end of the string.  `end` is one
\* past the last character that is not a separator, `start` is one past the
\* last separator before it (0-based offsets, as in path.slice(start, end)).
Basename(plat, path) ==
  LET first == BasenameStart(plat, path)
      nonSep == {i \in (first + 1)..Len(path) :
                   ~IsPathSeparator(plat, path[i])}
  IN IF nonSep = {} THEN << >>
     ELSE LET end == CHOOSE i \in nonSep : \A j \in nonSep : j <= i
              seps == {i \in (first + 1)..end :
                         IsPathSeparator(plat, path[i])}
              start == IF seps = {} THEN first
                       ELSE CHOOSE i \in seps : \A j \in seps : j <= i
          IN SubSeq(path, start + 1, end)

getBaseNameNoFallback(plat, path) == Basename(plat, path)

getBaseName(plat, path) ==
  LET baseName == Basename(plat, path)
  IN IF Len(baseName) = 0 THEN path ELSE baseName

(***************************************************************************)
(* The hosting descriptor (GitHubRepository) is defined outside this file; *)
(* the model keeps the members this file reads: name, fullName, hash,      *)
(* htmlURL (string or null) and parent (descriptor or null).               *)
(***************************************************************************)
Upstream ==
  [name |-> <<"r">>, fullName |-> <<"o", "/", "r">>, hash |-> <<"1", "+", "r">>,
   htmlURL |-> Some(<<"u">>), parent |-> None]

\* a second descriptor with the hash and name of Upstream
Twin ==
  [name |-> <<"r">>, fullName |-> <<"p", "/", "r">>, hash |-> <<"1", "+", "r">>,
   htmlURL |-> Some(<<"w">>), parent |-> None]

Fork ==
  [name |-> <<"f">>, fullName |-> <<"m", "/", "f">>, hash |-> <<"2", "+", "f">>,
   htmlURL |-> Some(<<"v">>), parent |-> Some(Upstream)]

ForkOfFork ==
  [name |-> <<"g">>, fullName |-> <<"n", "/", "g">>, hash |-> <<"3", "+", "g">>,
   htmlURL |-> Some(<<"x">>), parent |-> Some(Fork)]

\* empty name and fullName, no web URL
Unnamed ==
  [name |-> << >>, fullName |-> << >>, hash |-> <<"4">>,
   htmlURL |-> None, parent |-> None]

ForkOfUnnamed ==
  [name |-> <<"h">>, fullName |-> <<"m", "/", "h">>, hash |-> <<"5", "+", "h">>,
   htmlURL |-> Some(<<"y">>), parent |-> Some(Unnamed)]

GitHubRepositorySet ==
  {None, Some(Upstream), Some(Twin), Some(Fork), Some(ForkOfFork),
   Some(Unnamed), Some(ForkOfUnnamed)}

PairGitHubRepositorySet == {None, Some(Upstream), Some(Twin)}

(***************************************************************************)
(* Constructor arguments.                                                  *)
(***************************************************************************)
PathSet ==
  { << >>,
    <<"/">>,
    <<"a">>,
    <<"a", "/">>,
    <<"/", "a", "/", "b">>,
    <<"C", ":">>,
    <<"C", ":", "\\">>,
    <<"C", ":", "\\", "a">> }

\* "/Users/a/code/my-repo", "false++false/" and "false++false/+false"
PairPathSet ==
  { <<"/", "U", "s", "e", "r", "s", "/", "a", "/", "c", "o", "d", "e", "/",
      "m", "y", "-", "r", "e", "p", "o">>,
    <<"f", "a", "l", "s", "e", "+", "+", "f", "a", "l", "s", "e", "/">>,
    <<"f", "a", "l", "s", "e", "+", "+", "f", "a", "l", "s", "e", "/",
      "+", "f", "a", "l", "s", "e">> }

IdSet == {-1, 0, MaxId}

PairIdSet == {1, MaxId}

\* {} (the default) or a preference object
WorkflowPreferencesSet == {None, Some("parent")}

\* omitted, false, true
TutorialFlagSet == {None, Some(FALSE), Some(TRUE)}

(***************************************************************************)
(* class Repository                                                        *)
(***************************************************************************)
Truthy(str) == Len(str) > 0

ConstructorNameBaseNameOnly(plat, path, gitHubRepository) ==
  getBaseName(plat, path)

ConstructorNameNullCheckOnly(plat, path, gitHubRepository) ==
  IF gitHubRepository /= None
  THEN gitHubRepository[1].name
  ELSE getBaseName(plat, path)

\* (gitHubRepository && gitHubRepository.name) || getBaseName(path)
ConstructorName(plat, path, gitHubRepository) ==
  IF gitHubRepository /= None /\ Truthy(gitHubRepository[1].name)
  THEN gitHubRepository[1].name
  ELSE getBaseName(plat, path)

Repository(plat, path, id, gitHubRepository, missing, prefs, tutorial) ==
  [mainWorkTree |-> [path |-> path],
   id |-> id,
   gitHubRepository |-> gitHubRepository,
   missing |-> missing,
   workflowPreferences |-> prefs,
   _isTutorialRepository |-> tutorial,
   name |-> ConstructorName(plat, path, gitHubRepository)]

Path(r) == r.mainWorkTree.path

isTutorialRepositoryNotFalse(r) == r._isTutorialRepository /= Some(FALSE)

isTutorialRepository(r) == r._isTutorialRepository = Some(TRUE)

HashWithPreferences(r) ==
  NumberToString(r.id) \o <<"+">>
    \o (IF r.gitHubRepository = None THEN NullToString
        ELSE r.gitHubRepository[1].hash \o r.gitHubRepository[1].fullName)
    \o <<"+">> \o Path(r)
    \o <<"+">> \o BooleanToString(r.missing)
    \o <<"+">> \o r.name
    \o <<"+">> \o BooleanToString(isTutorialRepository(r))
    \o (IF r.workflowPreferences = None THEN << >> ELSE <<"+", "p">>)

Hash(r) ==
  NumberToString(r.id) \o <<"+">>
    \o (IF r.gitHubRepository = None THEN NullToString
        ELSE r.gitHubRepository[1].hash)
    \o <<"+">> \o Path(r)
    \o <<"+">> \o BooleanToString(r.missing)
    \o <<"+">> \o r.name
    \o <<"+">> \o BooleanToString(isTutorialRepository(r))

(***************************************************************************)
(* Free functions                                                          *)
(***************************************************************************)
\* instanceof GitHubRepository: every non-null descriptor is an instance
isRepositoryWithGitHubRepository(r) == r.gitHubRepository /= None

nameOfTruthy(r) ==
  IF r.gitHubRepository /= None /\ Truthy(r.gitHubRepository[1].fullName)
  THEN r.gitHubRepository[1].fullName
  ELSE r.name

nameOf(r) ==
  IF r.gitHubRepository /= None
  THEN r.gitHubRepository[1].fullName
  ELSE r.name

RECURSIVE RootOf(_)
RootOf(g) == IF g.parent = None THEN g ELSE RootOf(g.parent[1])

getNonForkGitHubRepositoryRoot(r) == RootOf(r.gitHubRepository[1])

\* repository.gitHubRepository.parent || repository.gitHubRepository
getNonForkGitHubRepository(r) ==
  IF r.gitHubRepository[1].parent /= None
  THEN r.gitHubRepository[1].parent[1]
  ELSE r.gitHubRepository[1]

getGitHubHtmlUrlOwn(r) ==
  IF ~isRepositoryWithGitHubRepository(r) THEN None
  ELSE r.gitHubRepository[1].htmlURL

getGitHubHtmlUrl(r) ==
  IF ~isRepositoryWithGitHubRepository(r) THEN None
  ELSE getNonForkGitHubRepository(r).htmlURL

(***************************************************************************)
(* State machine.  `repo` is the instance under inspection, `result` the   *)
(* value returned by the last accessor or function applied to it.  `other` *)
(* and `otherHash` hold a second instance and its hash, for the properties *)
(* that compare two instances.  An instance has no mutators: it is         *)
(* constructed once and only read afterwards.                              *)
(***************************************************************************)
NoResult == [op |-> "none", value |-> None]

Init ==
  /\ platform \in Platforms
  /\ repo = None
  /\ other = None
  /\ result = NoResult
  /\ otherHash = None

\* new Repository(path, id, gitHubRepository, missing, prefs?, tutorial?)
Construct ==
  \E path \in PathSet, id \in IdSet, gh \in GitHubRepositorySet,
     missing \in BOOLEAN, wp \in WorkflowPreferencesSet,
     tut \in TutorialFlagSet :
    /\ repo = None
    /\ repo' = Some(Repository(platform, path, id, gh, missing, wp, tut))
    /\ result' = NoResult
    /\ UNCHANGED <<platform, other, otherHash>>

Return(op, value) ==
  /\ repo /= None
  /\ result' = [op |-> op, value |-> value]
  /\ UNCHANGED <<platform, repo, other, otherHash>>

GetPath == repo /= None /\ Return("path", Path(repo[1]))

GetHash == repo /= None /\ Return("hash", Hash(repo[1]))

GetIsTutorialRepository ==
  repo /= None /\ Return("isTutorialRepository", isTutorialRepository(repo[1]))

CallIsRepositoryWithGitHubRepository ==
  /\ repo /= None
  /\ Return("isRepositoryWithGitHubRepository",
            isRepositoryWithGitHubRepository(repo[1]))

CallNameOf == repo /= None /\ Return("nameOf", nameOf(repo[1]))

CallGetGitHubHtmlUrl ==
  repo /= None /\ Return("getGitHubHtmlUrl", getGitHubHtmlUrl(repo[1]))

\* the parameter type admits only repositories with a hosting reference
CallGetNonForkGitHubRepository ==
  /\ repo /= None
  /\ repo[1].gitHubRepository /= None
  /\ Return("getNonForkGitHubRepository", getNonForkGitHubRepository(repo[1]))

Next ==
  \/ Construct
  \/ GetPath
  \/ GetHash
  \/ GetIsTutorialRepository
  \/ CallIsRepositoryWithGitHubRepository
  \/ CallNameOf
  \/ CallGetGitHubHtmlUrl
  \/ CallGetNonForkGitHubRepository

Spec == Init /\ [][Next]_vars

(***************************************************************************)
(* Two instances side by side.                                             *)
(***************************************************************************)
ConstructFirst ==
  \E path \in PairPathSet, id \in PairIdSet, gh \in PairGitHubRepositorySet,
     missing \in BOOLEAN, wp \in WorkflowPreferencesSet,
     tut \in TutorialFlagSet :
    /\ repo = None
    /\ repo' = Some(Repository(platform, path, id, gh, missing, wp, tut))
    /\ UNCHANGED <<platform, other, result, otherHash>>

ConstructSecond ==
  \E path \in PairPathSet, id \in PairIdSet, gh \in PairGitHubRepositorySet,
     missing \in BOOLEAN, wp \in WorkflowPreferencesSet,
     tut \in TutorialFlagSet :
    /\ repo /= None
    /\ other = None
    /\ other' = Some(Repository(platform, path, id, gh, missing, wp, tut))
    /\ UNCHANGED <<platform, repo, result, otherHash>>

\* read `hash` on both instances
GetHashes ==
  /\ repo /= None
  /\ other /= None
  /\ result' = [op |-> "hash", value |-> Hash(repo[1])]
  /\ otherHash' = Some(Hash(other[1]))
  /\ UNCHANGED <<platform, repo, other>>

NextPair ==
  \/ ConstructFirst
  \/ ConstructSecond
  \/ GetHashes

SpecPair == Init /\ [][NextPair]_vars

(***************************************************************************)
(* Properties                                                              *)
(***************************************************************************)
Constructed == repo /= None

HasHosting == repo /= None /\ repo[1].gitHubRepository /= None

\* the text after the last "+" of a hash string
LastComponent(str) ==
  LET plus == {i \in 1..Len(str) : str[i] = "+"}
  IN IF plus = {} THEN str
     ELSE SubSeq(str, (CHOOSE i \in plus : \A j \in plus : j <= i) + 1,
                 Len(str))

\* the path consists of separators only (after a drive prefix on win32)
HasNoSegments(plat, path) ==
  \A k \in (BasenameStart(plat, path) + 1)..Len(path) :
    IsPathSeparator(plat, path[k])

\* n is the last run of non-separator characters of the path
IsLastSegment(plat, path, n) ==
  LET first == BasenameStart(plat, path)
  IN \E i \in first..Len(path), j \in first..Len(path) :
       /\ i < j
       /\ n = SubSeq(path, i + 1, j)
       /\ \A k \in (i + 1)..j : ~IsPathSeparator(plat, path[k])
       /\ \A k \in (j + 1)..Len(path) : IsPathSeparator(plat, path[k])
       /\ i = first \/ IsPathSeparator(plat, path[i])

\* C1 as stated: with a non-null hosting reference, whatever its name
\* (the empty string included) and whatever the path, `name` is the hosting
\* reference's name.
C1_NameIsHostingName ==
  HasHosting => repo[1].name = repo[1].gitHubRepository[1].name

\* C1 amended: with a non-null hosting reference whose name is not empty,
\* `name` is the hosting reference's name whatever the path; with a hosting
\* reference whose name is the empty string, `name` is getBaseName(path).
C1_NameIsNonEmptyHostingName ==
  HasHosting =>
    IF repo[1].gitHubRepository[1].name /= << >>
    THEN repo[1].name = repo[1].gitHubRepository[1].name
    ELSE repo[1].name = getBaseName(platform, Path(repo[1]))

C1_Witness ==
  /\ HasHosting
  /\ repo[1].gitHubRepository[1].name /= << >>
  /\ repo[1].name = repo[1].gitHubRepository[1].name
  /\ Basename(platform, Path(repo[1])) /= << >>
  /\ Basename(platform, Path(repo[1])) /= repo[1].name

\* C5: with a null hosting reference and a non-empty path, `name` is the
\* last path segment when there is one, and the whole path string when the
\* path has no segments.
C5_NameIsLastSegmentOrPath ==
  (Constructed /\ repo[1].gitHubRepository = None /\ Len(Path(repo[1])) > 0)
    => IF HasNoSegments(platform, Path(repo[1]))
       THEN repo[1].name = Path(repo[1])
       ELSE IsLastSegment(platform, Path(repo[1]), repo[1].name)

C5_Witness ==
  /\ Constructed
  /\ repo[1].gitHubRepository = None
  /\ platform = "win32"
  /\ Path(repo[1]) = <<"C", ":", "\\">>
  /\ repo[1].name = <<"C", ":", "\\">>

\* C6: with a non-empty path, with or without a hosting reference and
\* whatever the hosting reference's name, `name` is a non-empty string.
C6_NameNonEmpty ==
  (Constructed /\ Len(Path(repo[1])) > 0) => Len(repo[1].name) > 0

C6_Witness ==
  /\ HasHosting
  /\ repo[1].gitHubRepository[1].name = << >>
  /\ HasNoSegments(platform, Path(repo[1]))
  /\ Len(Path(repo[1])) > 0
  /\ repo[1].name = Path(repo[1])

\* C7: getGitHubHtmlUrl returns null without a hosting reference, the
\* parent's htmlURL when the hosting reference has a parent, and the hosting
\* reference's own htmlURL otherwise; it returns null only without a hosting
\* reference or when the selected descriptor's htmlURL is null.
C7_HtmlUrl ==
  result.op = "getGitHubHtmlUrl" =>
    LET gh == repo[1].gitHubRepository
    IN /\ gh = None => result.value = None
       /\ (gh /= None /\ gh[1].parent /= None)
            => result.value = gh[1].parent[1].htmlURL
       /\ (gh /= None /\ gh[1].parent = None)
            => result.value = gh[1].htmlURL
       /\ result.value = None =>
            \/ gh = None
            \/ (gh[1].parent /= None /\ gh[1].parent[1].htmlURL = None)
            \/ (gh[1].parent = None /\ gh[1].htmlURL = None)

C7_Witness ==
  /\ result.op = "getGitHubHtmlUrl"
  /\ HasHosting
  /\ repo[1].gitHubRepository[1].parent /= None
  /\ repo[1].gitHubRepository[1].htmlURL /= None
  /\ result.value = repo[1].gitHubRepository[1].parent[1].htmlURL
  /\ result.value /= repo[1].gitHubRepository[1].htmlURL

\* C8: getNonForkGitHubRepository returns the hosting reference itself when
\* it has no parent and its parent when it has one: exactly one parent link
\* is followed, and nothing but one of those two is returned.
C8_NonFork ==
  result.op = "getNonForkGitHubRepository" =>
    /\ HasHosting
    /\ LET gh == repo[1].gitHubRepository[1]
       IN IF gh.parent = None
          THEN result.value = gh
          ELSE result.value = gh.parent[1]

C8_Witness ==
  /\ result.op = "getNonForkGitHubRepository"
  /\ HasHosting
  /\ repo[1].gitHubRepository[1].parent /= None
  /\ repo[1].gitHubRepository[1].parent[1].parent /= None
  /\ result.value = repo[1].gitHubRepository[1].parent[1]

\* C9: nameOf returns the hosting reference's fullName whenever the hosting
\* reference is non-null, even when that fullName is empty, and the locally
\* derived `name` when the hosting reference is null.
C9_NameOf ==
  result.op = "nameOf" =>
    IF repo[1].gitHubRepository /= None
    THEN result.value = repo[1].gitHubRepository[1].fullName
    ELSE result.value = repo[1].name

C9_Witness ==
  /\ result.op = "nameOf"
  /\ HasHosting
  /\ repo[1].gitHubRepository[1].fullName = << >>
  /\ repo[1].name /= << >>
  /\ result.value = << >>

\* C10: isTutorialRepository is true exactly when the flag passed at
\* construction is true (false when it is omitted or false), and that value
\* is the last component of `hash`.
C10_TutorialFlag ==
  /\ result.op = "isTutorialRepository" =>
       result.value = (repo[1]._isTutorialRepository = Some(TRUE))
  /\ result.op = "hash" =>
       LastComponent(result.value) =
         BooleanToString(repo[1]._isTutorialRepository = Some(TRUE))

C10_Witness ==
  /\ result.op = "isTutorialRepository"
  /\ repo[1]._isTutorialRepository = None
  /\ result.value = FALSE

(***************************************************************************)
(* Properties of two instances                                             *)
(***************************************************************************)
HashesRead == repo /= None /\ other /= None /\ otherHash /= None

SameHosting(g, h) ==
  \/ g = None /\ h = None
  \/ /\ g /= None
     /\ h /= None
     /\ g[1].hash = h[1].hash
     /\ g[1].name = h[1].name

\* the number of constructor arguments, workflowPreferences aside, in which
\* the two instances differ
Differences(r, s) ==
  Cardinality({f \in {"id", "gitHubRepository", "path", "missing", "tutorial"} :
    \/ f = "id" /\ r.id /= s.id
    \/ f = "gitHubRepository" /\ r.gitHubRepository /= s.gitHubRepository
    \/ f = "path" /\ Path(r) /= Path(s)
    \/ f = "missing" /\ r.missing /= s.missing
    \/ f = "tutorial" /\ r._isTutorialRepository /= s._isTutorialRepository})

\* C2 as stated: two instances with the same hash are equal in every field.
C2_SameHashSameFields ==
  (HashesRead /\ result.value = otherHash[1]) => repo[1] = other[1]

\* C3 as stated: two instances that differ in exactly one of id, hosting
\* reference, path, missing flag and tutorial flag as passed (omitted and
\* false counted as different) have different hashes.
C3_OneFieldChangesHash ==
  (/\ HashesRead
   /\ repo[1].workflowPreferences = other[1].workflowPreferences
   /\ Differences(repo[1], other[1]) = 1)
    => result.value /= otherHash[1]

====
